---- MODULE Spec2Model ----
(***************************************************************************)
(* Model of scripts/download_sets.py: the run of main() over the three     *)
(* datasets, the image cache (load_image_cache / save_image_cache), the    *)
(* temporary zip files (download_zip / extract_and_convert / cleanup) and  *)
(* the asynchronous image validation (check_image tasks driven by          *)
(* filter_valid_images_async through asyncio.as_completed and an aiohttp   *)
(* TCPConnector).                                                          *)
(***************************************************************************)
EXTENDS Naturals, Sequences, FiniteSets, TLC

VARIABLES
    pc,           \* position of main()
    ds,           \* index in DatasetOrder of the dataset being processed
    err,          \* which call raised when pc = "error"
    tempzip,      \* dataset name -> does PROJECT_ROOT/temp_<name>.zip exist
    cacheFile,    \* CACHE_FILE: Absent or File(the chunks written to it)
    prevFile,     \* history: CACHE_FILE as it was when the save in progress began
    img_cache,    \* the dict img_cache of main, in insertion order
    data,         \* rows of the current dataset: the value of their img_url
    concurrency,  \* the limit of the TCPConnector of the current call
    tasks,        \* one check_image task per row of data
    doneq,        \* finished tasks as_completed has not yet yielded
    valid_data,   \* rows appended by filter_valid_images_async (row indices)
    count,        \* the enumerate counter of filter_valid_images_async
    issued,       \* number of session.head calls made in the current call
    normalized_data, \* normalized rows of the current dataset
    log,          \* history of the run: the accesses to CACHE_FILE, the calls
                  \* of filter_valid_images_async that returned, the URLs probed
    round,        \* SpecTwice: which of the two calls on the same rows is running
    first,        \* SpecTwice: what the first of the two calls returned
    themes_data,  \* SpecEnrich: the rows of themes.csv after extract_and_convert
    themes_lookup, \* SpecEnrich: the dict of line 198
    parent_lookup, \* SpecEnrich: the dict of line 199
    row,          \* SpecEnrich: one row of a dataset, a dict from field to value
    normalized_row \* SpecEnrich: the dict of lines 220-228 made from row

(* the variables of SpecEnrich *)
Enrich == <<themes_data, themes_lookup, parent_lookup, row, normalized_row>>

vars == <<pc, ds, err, tempzip, cacheFile, prevFile, log, img_cache, data,
          concurrency, tasks, doneq, valid_data, count, issued,
          normalized_data, round, first, Enrich>>

----------------------------------------------------------------------------
(* Bounds: rows per dataset, and the largest connector limit a call is     *)
(* given (the default of 50 scaled down so that the rows can exceed it).   *)

MaxRows == 2
MaxConcurrency == 1

(* The URLs a dataset may carry, and the other values of the img_url field:
   the key is missing, the value is None, the value is the empty string *)
Urls == {"a", "b"}
NoKey == "<nokey>"
Null == "<null>"
ImgValues == {NoKey, Null, ""} \cup Urls

(* CACHE_FILE: whether it exists and the chunks of text it holds *)
Absent == [exists |-> FALSE, text |-> <<>>]
File(text) == [exists |-> TRUE, text |-> text]

NoCall == [valid |-> {}, issued |-> 0]

(* the history of a run that starts with CACHE_FILE being file *)
NewLog(file) ==
    [reads |-> 0, writes |-> 0, returns |-> 0, atStart |-> file, probed |-> {}]

DatasetOrder == <<"themes", "sets", "minifigs">>
DatasetNames == {"themes", "sets", "minifigs"}

----------------------------------------------------------------------------
(* Python dict with insertion order: a sequence of <<key, value>> pairs    *)
(* with distinct keys.                                                     *)

Keys(c) == {c[j][1] : j \in DOMAIN c}

Get(c, u) == c[CHOOSE j \in DOMAIN c : c[j][1] = u][2]

PutReplacing(c, u, v) == <<<<u, v>>>>

Put(c, u, v) ==
    IF u \in Keys(c)
    THEN [j \in DOMAIN c |-> IF c[j][1] = u THEN <<u, v>> ELSE c[j]]
    ELSE Append(c, <<u, v>>)

(* json.dump(cache, f, indent=2): the chunks written, one per token *)
Open == <<"{">>
Close == <<"}">>
Encode(v) == IF v THEN "true" ELSE "false"
Dump(c) ==
    <<Open>> \o [j \in DOMAIN c |-> <<c[j][1], Encode(c[j][2])>>] \o <<Close>>

(* json.load accepts the text iff it is one complete object *)
WellFormed(text) ==
    /\ Len(text) >= 2
    /\ text[1] = Open
    /\ text[Len(text)] = Close
    /\ \A j \in 2..(Len(text) - 1) : text[j] \notin {Open, Close}

(* json.load: the value of a literal *)
Decode(t) == t = "true"

RECURSIVE PutAll(_, _)
PutAll(c, pairs) ==
    IF pairs = <<>> THEN c
    ELSE PutAll(Put(c, Head(pairs)[1], Decode(Head(pairs)[2])), Tail(pairs))

Parse(text) == PutAll(<<>>, SubSeq(text, 2, Len(text) - 1))

load_image_cacheEmpty(file) == <<>>

(* load_image_cache *)
load_image_cache(file) == IF file.exists THEN Parse(file.text) ELSE <<>>

----------------------------------------------------------------------------
(* The check_image tasks.  st: new, queued (session.head waits for a        *)
(* connection), conn (the request holds a connection), done.  out: what the *)
(* task observed.  ret: it returned its row rather than None.               *)

(* the outcomes of a task that called session.head *)
Probes == {"200", "non200", "error", "timeout"}

NewTask == [st |-> "new", out |-> "none", ret |-> FALSE]

(* url = row.get("img_url") or "" *)
UrlOf(img) == IF img \in {NoKey, Null} THEN "" ELSE img

NoUrlNever(url) == FALSE

(* if not url: return None *)
NoUrl(url) == url = ""

InCacheNever(c, u) == FALSE

(* if url in cache *)
InCache(c, u) == u \in Keys(c)

CachedVerdictInverted(c, u) == ~Get(c, u)

(* if cache[url]: return row *)
CachedVerdict(c, u) == Get(c, u)

VerdictNotServerError(status) == status < 500

(* valid = resp.status == 200 *)
Verdict(status) == status = 200

(* the statuses a HEAD request is answered with *)
Statuses == {200, 404}

total == Len(data)

Started == \A i \in DOMAIN tasks : tasks[i].st # "new"

(* connections of the TCPConnector in use *)
InUse == {i \in DOMAIN tasks : tasks[i].st = "conn"}

ConnectorFreeNoLimit == TRUE

(* TCPConnector(limit=concurrency): a request gets a connection only while
   fewer than limit are in use *)
ConnectorFree == Cardinality(InUse) < concurrency

(* the finished task is yielded twice *)
FinishTwice(i, out, ret) ==
    /\ tasks' = [tasks EXCEPT ![i] = [st |-> "done", out |-> out, ret |-> ret]]
    /\ doneq' = doneq \o <<i, i>>

Finish(i, out, ret) ==
    /\ tasks' = [tasks EXCEPT ![i] = [st |-> "done", out |-> out, ret |-> ret]]
    /\ doneq' = Append(doneq, i)

----------------------------------------------------------------------------
Init ==
    /\ pc = "load"
    /\ ds = 1
    /\ err = "none"
    /\ tempzip = [d \in DatasetNames |-> FALSE]
    /\ cacheFile = Absent
    /\ prevFile = Absent
    /\ log = NewLog(Absent)
    /\ img_cache = <<>>
    /\ data = <<>>
    /\ concurrency = 1
    /\ tasks = <<>>
    /\ doneq = <<>>
    /\ valid_data = <<>>
    /\ count = 0
    /\ issued = 0
    /\ normalized_data = <<>>
    /\ round = 0
    /\ first = NoCall
    /\ themes_data = <<>>
    /\ themes_lookup = <<>>
    /\ parent_lookup = <<>>
    /\ row = <<>>
    /\ normalized_row = <<>>

Call == <<concurrency, tasks, doneq, valid_data, count, issued>>
Locals == <<data, Call, normalized_data, round, first, Enrich>>

(* main, line 191 *)
LoadCache ==
    /\ pc = "load"
    /\ cacheFile.exists => WellFormed(cacheFile.text)
    /\ img_cache' = load_image_cache(cacheFile)
    /\ log' = [log EXCEPT !.reads = @ + 1]
    /\ pc' = "download"
    /\ UNCHANGED <<ds, err, tempzip, cacheFile, prevFile, Locals>>

(* download_zip: urlretrieve fetches the archive into the temporary file *)
DownloadZip ==
    /\ pc = "download"
    /\ tempzip' = [tempzip EXCEPT ![DatasetOrder[ds]] = TRUE]
    /\ pc' = "extract"
    /\ UNCHANGED <<ds, err, cacheFile, prevFile, log, img_cache, Locals>>

(* urlretrieve raises: before it opened the temporary file (created = FALSE)
   or while it was copying the response into it (created = TRUE) *)
DownloadZipFails ==
    /\ pc = "download"
    /\ \E created \in BOOLEAN :
         tempzip' = [tempzip EXCEPT
                       ![DatasetOrder[ds]] = created \/ tempzip[DatasetOrder[ds]]]
    /\ pc' = "error"
    /\ err' = "download"
    /\ UNCHANGED <<ds, cacheFile, prevFile, log, img_cache, Locals>>

(* the rows a dataset may hold; the themes rows carry no img_url *)
RowsOf(d) ==
    IF d = "themes" THEN {<<>>}
    ELSE UNION {[1..n -> ImgValues] : n \in 0..MaxRows}

ExtractAndConvert ==
    /\ pc = "extract"
    /\ data' \in RowsOf(DatasetOrder[ds])
    /\ pc' = "cleanup"
    /\ UNCHANGED <<ds, err, tempzip, cacheFile, prevFile, log, img_cache, Call,
                   normalized_data, round, first, Enrich>>

(* the except block saves the cache before it raises again *)
ExtractAndConvertFailsSaving ==
    /\ pc = "extract"
    /\ pc' = "error"
    /\ err' = "extract"
    /\ cacheFile' = File(Dump(img_cache))
    /\ UNCHANGED <<ds, tempzip, prevFile, log, img_cache, Locals>>

(* extract_and_convert raises (no CSV in the archive, a bad archive) *)
ExtractAndConvertFails ==
    /\ pc = "extract"
    /\ pc' = "error"
    /\ err' = "extract"
    /\ UNCHANGED <<ds, tempzip, cacheFile, prevFile, log, img_cache, Locals>>

(* cleanup; for themes main goes on to the next dataset *)
Cleanup ==
    /\ pc = "cleanup"
    /\ tempzip' = [tempzip EXCEPT ![DatasetOrder[ds]] = FALSE]
    /\ IF DatasetOrder[ds] = "themes"
       THEN /\ ds' = ds + 1
            /\ pc' = "download"
       ELSE /\ ds' = ds
            /\ pc' = "filter"
    /\ UNCHANGED <<err, cacheFile, prevFile, log, img_cache, Locals>>

(* filter_valid_images_async up to its first await: the connector, the
   session and one task per row, none of which has run yet *)
FilterStart ==
    /\ pc = "filter"
    /\ concurrency' \in 1..MaxConcurrency
    /\ tasks' = [i \in 1..total |-> NewTask]
    /\ doneq' = <<>>
    /\ valid_data' = <<>>
    /\ count' = 0
    /\ issued' = 0
    /\ pc' = "await"
    /\ UNCHANGED <<ds, err, tempzip, cacheFile, prevFile, log, img_cache, data,
                   normalized_data, round, first, Enrich>>

MainFrame == <<pc, ds, err, tempzip, cacheFile, prevFile, log, data, concurrency,
               valid_data, count, normalized_data, round, first, Enrich>>

(* check_image from its start to its first suspension.  The event loop runs
   this step of every task before it handles any response or timer. *)
CheckImageStart(i) ==
    /\ pc = "await"
    /\ i \in DOMAIN tasks
    /\ tasks[i].st = "new"
    /\ LET url == UrlOf(data[i]) IN
       IF NoUrl(url)
       THEN /\ Finish(i, "nourl", FALSE)
            /\ UNCHANGED <<img_cache, issued>>
       ELSE IF InCache(img_cache, url)
       THEN /\ Finish(i, "hit", CachedVerdict(img_cache, url))
            /\ UNCHANGED <<img_cache, issued>>
       ELSE /\ issued' = issued + 1
            /\ \/ /\ ConnectorFree
                  /\ tasks' = [tasks EXCEPT ![i].st = "conn"]
                  /\ UNCHANGED <<img_cache, doneq>>
               \/ /\ ~ConnectorFree
                  /\ tasks' = [tasks EXCEPT ![i].st = "queued"]
                  /\ UNCHANGED <<img_cache, doneq>>
               \/ \* session.head raises before it suspends: the URL is
                  \* invalid, so no request for it has got further
                  /\ \A j \in DOMAIN tasks : data[j] = data[i] => tasks[j].st = "new"
                  /\ img_cache' = Put(img_cache, url, FALSE)
                  /\ Finish(i, "error", FALSE)
    /\ UNCHANGED MainFrame

(* the connector hands a free connection to a waiting request *)
ConnectorAcquire(i) ==
    /\ pc = "await"
    /\ Started
    /\ i \in DOMAIN tasks
    /\ tasks[i].st = "queued"
    /\ ConnectorFree
    /\ tasks' = [tasks EXCEPT ![i].st = "conn"]
    /\ UNCHANGED <<img_cache, issued, doneq, MainFrame>>

(* the response arrives: lines 126-129 *)
HeadResponds(i, status) ==
    /\ pc = "await"
    /\ Started
    /\ i \in DOMAIN tasks
    /\ tasks[i].st = "conn"
    /\ LET valid == Verdict(status) IN
       /\ img_cache' = Put(img_cache, UrlOf(data[i]), valid)
       /\ Finish(i, IF status = 200 THEN "200" ELSE "non200", valid)
    /\ UNCHANGED <<issued, MainFrame>>

(* the connection fails: lines 130-131 *)
HeadFails(i) ==
    /\ pc = "await"
    /\ Started
    /\ i \in DOMAIN tasks
    /\ tasks[i].st = "conn"
    /\ img_cache' = Put(img_cache, UrlOf(data[i]), FALSE)
    /\ Finish(i, "error", FALSE)
    /\ UNCHANGED <<issued, MainFrame>>

(* the timeout escapes check_image and ends the call *)
HeadTimesOutUncaught(i) ==
    /\ pc = "await"
    /\ Started
    /\ i \in DOMAIN tasks
    /\ tasks[i].st \in {"queued", "conn"}
    /\ Finish(i, "timeout", FALSE)
    /\ pc' = "error"
    /\ err' = "probe"
    /\ UNCHANGED <<img_cache, issued, ds, tempzip, cacheFile, prevFile, log, data,
                   concurrency, valid_data, count, normalized_data, round, first, Enrich>>

(* session.head is called without a timeout: no such step *)
HeadNeverTimesOut(i) ==
    /\ FALSE
    /\ UNCHANGED vars

(* timeout=5 runs from the call of session.head, so it also ends a request
   that is still waiting for a connection: lines 130-131 *)
HeadTimesOut(i) ==
    /\ pc = "await"
    /\ Started
    /\ i \in DOMAIN tasks
    /\ tasks[i].st \in {"queued", "conn"}
    /\ img_cache' = Put(img_cache, UrlOf(data[i]), FALSE)
    /\ Finish(i, "timeout", FALSE)
    /\ UNCHANGED <<issued, MainFrame>>

(* one round of the as_completed loop, which yields the tasks in the order
   they finished: lines 143-148 *)
Collect ==
    /\ pc = "await"
    /\ Started
    /\ doneq # <<>>
    /\ valid_data' = IF tasks[Head(doneq)].ret
                     THEN Append(valid_data, Head(doneq))
                     ELSE valid_data
    /\ doneq' = Tail(doneq)
    /\ count' = count + 1
    /\ UNCHANGED <<pc, ds, err, tempzip, cacheFile, prevFile, log, img_cache, data,
                   concurrency, tasks, issued, normalized_data, round, first, Enrich>>

(* the URLs for which this call has called session.head *)
Probed == {UrlOf(data[i]) : i \in {j \in DOMAIN tasks : tasks[j].out \in Probes}}

(* the loop is exhausted: the session closes and the call returns *)
FilterReturn ==
    /\ pc = "await"
    /\ count = total
    /\ log' = [log EXCEPT !.returns = @ + 1, !.probed = @ \cup Probed]
    /\ pc' = "normalize"
    /\ UNCHANGED <<ds, err, tempzip, cacheFile, prevFile, img_cache, Locals>>

(* the list filter_valid_images_async returned, to which line 216 rebinds the
   name data: the rows of valid_data, in the order they were appended *)
Filtered == [j \in DOMAIN valid_data |-> data[valid_data[j]]]

(* the cache is saved as soon as one dataset has been validated *)
NormalizeThenSave ==
    /\ pc = "normalize"
    /\ normalized_data' = Filtered
    /\ tasks' = <<>>
    /\ doneq' = <<>>
    /\ valid_data' = <<>>
    /\ count' = 0
    /\ issued' = 0
    /\ ds' = ds
    /\ pc' = "save_open"
    /\ UNCHANGED <<err, tempzip, cacheFile, prevFile, log, img_cache, data,
                   concurrency, round, first, Enrich>>

(* lines 218-235, then the next dataset or the save of the cache; the
   finished call's locals are gone *)
Normalize ==
    /\ pc = "normalize"
    /\ normalized_data' = Filtered
    /\ tasks' = <<>>
    /\ doneq' = <<>>
    /\ valid_data' = <<>>
    /\ count' = 0
    /\ issued' = 0
    /\ IF ds < Len(DatasetOrder)
       THEN /\ ds' = ds + 1
            /\ pc' = "download"
       ELSE /\ ds' = ds
            /\ pc' = "save_open"
    /\ UNCHANGED <<err, tempzip, cacheFile, prevFile, log, img_cache, data,
                   concurrency, round, first, Enrich>>

(* save_image_cache: open(CACHE_FILE, 'w') truncates the file *)
SaveOpen ==
    /\ pc = "save_open"
    /\ prevFile' = cacheFile
    /\ cacheFile' = File(<<>>)
    /\ log' = [log EXCEPT !.writes = @ + 1]
    /\ pc' = "save_write"
    /\ UNCHANGED <<ds, err, tempzip, img_cache, Locals>>

(* json.dump writes the text chunk by chunk *)
SaveWrite ==
    /\ pc = "save_write"
    /\ Len(cacheFile.text) < Len(Dump(img_cache))
    /\ cacheFile' = File(Append(cacheFile.text,
                             Dump(img_cache)[Len(cacheFile.text) + 1]))
    /\ UNCHANGED <<pc, ds, err, tempzip, prevFile, log, img_cache, Locals>>

(* the with block closes the file; main is done *)
SaveClose ==
    /\ pc = "save_write"
    /\ Len(cacheFile.text) = Len(Dump(img_cache))
    /\ prevFile' = Absent
    /\ pc' = "done"
    /\ UNCHANGED <<ds, err, tempzip, cacheFile, log, img_cache, Locals>>

(* the script is started again: the files stay, the process state is new *)
Rerun ==
    /\ pc \in {"done", "error"}
    /\ pc' = "load"
    /\ ds' = 1
    /\ err' = "none"
    /\ img_cache' = <<>>
    /\ data' = <<>>
    /\ concurrency' = 1
    /\ tasks' = <<>>
    /\ doneq' = <<>>
    /\ valid_data' = <<>>
    /\ count' = 0
    /\ issued' = 0
    /\ normalized_data' = <<>>
    /\ log' = NewLog(cacheFile)
    /\ UNCHANGED <<tempzip, cacheFile, prevFile, round, first, Enrich>>

Next ==
    \/ LoadCache
    \/ DownloadZip
    \/ DownloadZipFails
    \/ ExtractAndConvert
    \/ ExtractAndConvertFails
    \/ Cleanup
    \/ FilterStart
    \/ \E i \in 1..(MaxRows + 1) : CheckImageStart(i)
    \/ \E i \in 1..(MaxRows + 1) : ConnectorAcquire(i)
    \/ \E i \in 1..(MaxRows + 1), status \in Statuses : HeadResponds(i, status)
    \/ \E i \in 1..(MaxRows + 1) : HeadFails(i)
    \/ \E i \in 1..(MaxRows + 1) : HeadTimesOut(i)
    \/ Collect
    \/ FilterReturn
    \/ Normalize
    \/ SaveOpen
    \/ SaveWrite
    \/ SaveClose
    \/ Rerun

Spec == Init /\ [][Next]_vars

----------------------------------------------------------------------------
(* filter_valid_images_async called twice on the same rows, the second call
   with the cache the first one left *)

Perms(S) ==
    {p \in [1..Cardinality(S) -> S] : \A i, j \in DOMAIN p : i # j => p[i] # p[j]}

(* every dict from URLs to verdicts, in every insertion order *)
Dicts ==
    UNION {{[j \in DOMAIN p |-> <<p[j], v[p[j]]>>] :
              p \in Perms(S), v \in [S -> BOOLEAN]} : S \in SUBSET Urls}

ValidSet == {valid_data[j] : j \in DOMAIN valid_data}

InitTwice ==
    /\ pc = "filter"
    /\ ds = 2
    /\ err = "none"
    /\ tempzip = [d \in DatasetNames |-> FALSE]
    /\ cacheFile = Absent
    /\ prevFile = Absent
    /\ log = NewLog(Absent)
    /\ img_cache \in Dicts
    /\ data \in RowsOf("sets")
    /\ concurrency = 1
    /\ tasks = <<>>
    /\ doneq = <<>>
    /\ valid_data = <<>>
    /\ count = 0
    /\ issued = 0
    /\ normalized_data = <<>>
    /\ round = 1
    /\ first = NoCall
    /\ themes_data = <<>>
    /\ themes_lookup = <<>>
    /\ parent_lookup = <<>>
    /\ row = <<>>
    /\ normalized_row = <<>>

CallAgain ==
    /\ pc = "normalize"
    /\ round = 1
    /\ first' = [valid |-> ValidSet, issued |-> issued]
    /\ round' = 2
    /\ pc' = "filter"
    /\ UNCHANGED <<ds, err, tempzip, cacheFile, prevFile, log, img_cache, data,
                   Call, normalized_data, Enrich>>

NextTwice ==
    \/ FilterStart
    \/ \E i \in 1..(MaxRows + 1) : CheckImageStart(i)
    \/ \E i \in 1..(MaxRows + 1) : ConnectorAcquire(i)
    \/ \E i \in 1..(MaxRows + 1), status \in Statuses : HeadResponds(i, status)
    \/ \E i \in 1..(MaxRows + 1) : HeadFails(i)
    \/ \E i \in 1..(MaxRows + 1) : HeadTimesOut(i)
    \/ Collect
    \/ FilterReturn
    \/ CallAgain

SpecTwice == InitTwice /\ [][NextTwice]_vars

----------------------------------------------------------------------------
(* One call of filter_valid_images_async under the scheduling of asyncio:
   the event loop runs every task that is ready, the timer of timeout=5 ends
   a request that is still waiting or on the wire, and the as_completed loop
   is resumed whenever a task has finished.  Nothing obliges the server to
   answer, so the steps of the network carry no fairness. *)

NextCall ==
    \/ FilterStart
    \/ \E i \in 1..(MaxRows + 1) : CheckImageStart(i)
    \/ \E i \in 1..(MaxRows + 1) : ConnectorAcquire(i)
    \/ \E i \in 1..(MaxRows + 1), status \in Statuses : HeadResponds(i, status)
    \/ \E i \in 1..(MaxRows + 1) : HeadFails(i)
    \/ \E i \in 1..(MaxRows + 1) : HeadTimesOut(i)
    \/ Collect
    \/ FilterReturn

SpecFair ==
    /\ InitTwice
    /\ [][NextCall]_vars
    /\ WF_vars(FilterStart)
    /\ WF_vars(\E i \in 1..(MaxRows + 1) : CheckImageStart(i))
    /\ WF_vars(\E i \in 1..(MaxRows + 1) : HeadTimesOut(i))
    /\ WF_vars(Collect)
    /\ WF_vars(FilterReturn)

----------------------------------------------------------------------------
(* The theme lookups of main (lines 198-199), add_theme_names and the
   normalization of a row (lines 218-230), applied to one row.  A row is a
   dict: a function from the fields it has to their values.  The ints a
   numeric field holds after extract_and_convert are written in decimal; its
   other values are "" (an empty cell) and None (Null). *)

MaxThemes == 2

ThemeIds == {"0", "1", "2"}
Names == {"Technic", "Technic Model"}

(* isinstance(v, int) *)
IsInt(v) == v \in ThemeIds

(* the truth value Python gives v: None, "" and 0 are false *)
Truthy(v) == v \notin {Null, "", "0"}

(* dict.get(k) *)
DictGet(c, k) == IF k \in Keys(c) THEN Get(c, k) ELSE Null

(* row.get(k, default) *)
RowGet(r, k, default) == IF k \in DOMAIN r THEN r[k] ELSE default

(* a or b *)
Or(a, b) == IF Truthy(a) THEN a ELSE b

Front(q) == SubSeq(q, 1, Len(q) - 1)
Last(q) == q[Len(q)]

RECURSIVE ThemesLookupFirstWins(_)
ThemesLookupFirstWins(themes) ==
    IF themes = <<>> THEN <<>>
    ELSE LET rest == ThemesLookupFirstWins(Front(themes)) IN
         IF Last(themes).id \in Keys(rest) THEN rest
         ELSE Put(rest, Last(themes).id, Last(themes).name)

(* line 198: {t["id"]: t.get("name", "") for t in themes_data} *)
RECURSIVE ThemesLookup(_)
ThemesLookup(themes) ==
    IF themes = <<>> THEN <<>>
    ELSE Put(ThemesLookup(Front(themes)), Last(themes).id, Last(themes).name)

RECURSIVE ParentLookupIds(_, _)
ParentLookupIds(themes, lookup) ==
    IF themes = <<>> THEN <<>>
    ELSE IF Truthy(Last(themes).parent_id)
    THEN Put(ParentLookupIds(Front(themes), lookup), Last(themes).id,
             Last(themes).parent_id)
    ELSE ParentLookupIds(Front(themes), lookup)

(* line 199: {t["id"]: themes_lookup.get(t.get("parent_id"))
              for t in themes_data if t.get("parent_id")} *)
RECURSIVE ParentLookup(_, _)
ParentLookup(themes, lookup) ==
    IF themes = <<>> THEN <<>>
    ELSE IF Truthy(Last(themes).parent_id)
    THEN Put(ParentLookup(Front(themes), lookup), Last(themes).id,
             DictGet(lookup, Last(themes).parent_id))
    ELSE ParentLookup(Front(themes), lookup)

(* the body of the loop of add_theme_names *)
add_theme_names(item, lookup, parents) ==
    LET tid == RowGet(item, "theme_id", Null)
        theme == IF IsInt(tid) THEN DictGet(lookup, tid) ELSE ""
        parent_theme == IF IsInt(tid) THEN DictGet(parents, tid) ELSE ""
    IN [k \in DOMAIN item \cup {"theme", "parent_theme"} |->
          IF k = "theme" THEN theme
          ELSE IF k = "parent_theme" THEN parent_theme
          ELSE item[k]]

FIELDS_ORDER ==
    <<"set_num", "name", "year", "num_parts", "image", "theme", "parent_theme">>
Fields == {FIELDS_ORDER[j] : j \in DOMAIN FIELDS_ORDER}

(* the field of the row each output field other than set_num is read from *)
SourceOf ==
    [name |-> "name", year |-> "year", num_parts |-> "num_parts",
     image |-> "img_url", theme |-> "theme", parent_theme |-> "parent_theme"]

(* the output fields are those the row has *)
NormalizedRowOmitting(r) ==
    [k \in {f \in Fields \ {"set_num"} : SourceOf[f] \in DOMAIN r} |->
        r[SourceOf[k]]]

(* lines 220-228 *)
NormalizedRow(r) ==
    [k \in Fields |->
        IF k = "set_num"
        THEN Or(Or(RowGet(r, "set_num", Null), RowGet(r, "fig_num", Null)), "")
        ELSE RowGet(r, SourceOf[k], "")]

(* the inputs: the rows of themes.csv, whose header gives every row the
   three fields *)
ThemeRecords == [id : ThemeIds, name : Names, parent_id : {Null, ""} \cup ThemeIds]
ThemeTables == UNION {[1..n -> ThemeRecords] : n \in 0..MaxThemes}

Scenario ==
    <<[id |-> "1", name |-> "Technic", parent_id |-> Null],
      [id |-> "2", name |-> "Technic Model", parent_id |-> "1"]>>

(* the rows of a dataset: each field is missing, None, "" or a value *)
SourceFields == {"set_num", "fig_num", "name", "year", "num_parts", "img_url"}
ValueOf ==
    [set_num |-> "10-1", fig_num |-> "fig-1", name |-> "Car", year |-> "1999",
     num_parts |-> "42", img_url |-> "a"]
SourceRows ==
    UNION {{[k \in S |-> IF c[k] = "value" THEN ValueOf[k] ELSE c[k]] :
              c \in [S -> {Null, "", "value"}]} : S \in SUBSET SourceFields}

(* row r with theme_id = v, or without the field *)
WithThemeId(r, v) ==
    IF v = NoKey THEN r
    ELSE [k \in DOMAIN r \cup {"theme_id"} |-> IF k = "theme_id" THEN v ELSE r[k]]

MainVars == <<ds, err, tempzip, cacheFile, prevFile, log, img_cache, data, Call,
              normalized_data, round, first>>

(* every table of themes with a row of every theme_id, and the table of the
   scenario with every row *)
InitEnrich ==
    /\ pc = "lookup"
    /\ ds = 2
    /\ err = "none"
    /\ tempzip = [d \in DatasetNames |-> FALSE]
    /\ cacheFile = Absent
    /\ prevFile = Absent
    /\ log = NewLog(Absent)
    /\ img_cache = <<>>
    /\ data = <<>>
    /\ concurrency = 1
    /\ tasks = <<>>
    /\ doneq = <<>>
    /\ valid_data = <<>>
    /\ count = 0
    /\ issued = 0
    /\ normalized_data = <<>>
    /\ round = 0
    /\ first = NoCall
    /\ \/ /\ themes_data \in ThemeTables
          /\ row \in {WithThemeId([set_num |-> "10-1"], v) :
                        v \in {NoKey, Null, ""} \cup ThemeIds}
       \/ /\ themes_data = Scenario
          /\ row \in {WithThemeId(r, "2") : r \in SourceRows}
    /\ themes_lookup = <<>>
    /\ parent_lookup = <<>>
    /\ normalized_row = <<>>

(* lines 198-199 *)
BuildLookups ==
    /\ pc = "lookup"
    /\ themes_lookup' = ThemesLookup(themes_data)
    /\ parent_lookup' = ParentLookup(themes_data, themes_lookup')
    /\ pc' = "enrich"
    /\ UNCHANGED <<MainVars, themes_data, row, normalized_row>>

(* line 213 *)
AddThemeNames ==
    /\ pc = "enrich"
    /\ row' = add_theme_names(row, themes_lookup, parent_lookup)
    /\ pc' = "normalize_row"
    /\ UNCHANGED <<MainVars, themes_data, themes_lookup, parent_lookup,
                   normalized_row>>

(* lines 219-229 for a row that filter_valid_images_async returned *)
NormalizeRow ==
    /\ pc = "normalize_row"
    /\ normalized_row' = NormalizedRow(row)
    /\ pc' = "normalized"
    /\ UNCHANGED <<MainVars, themes_data, themes_lookup, parent_lookup, row>>

NextEnrich ==
    \/ BuildLookups
    \/ AddThemeNames
    \/ NormalizeRow

SpecEnrich == InitEnrich /\ [][NextEnrich]_vars

----------------------------------------------------------------------------
(* What a step did to task i *)

StartedIn(i) ==
    /\ i \in DOMAIN tasks
    /\ i \in DOMAIN tasks'
    /\ tasks[i].st = "new"
    /\ tasks'[i].st # "new"

FinishedIn(i) ==
    /\ i \in DOMAIN tasks
    /\ i \in DOMAIN tasks'
    /\ tasks[i].st # "done"
    /\ tasks'[i].st = "done"

(* the step called session.head for row i *)
HeadIssuedIn(i) == StartedIn(i) /\ tasks'[i].out \notin {"nourl", "hit"}

Failures == {"non200", "error", "timeout"}
NoImage == {NoKey, Null, ""}

(* the step wrote a verdict for u that the cache did not hold before *)
Changed(u) ==
    /\ u \in Keys(img_cache')
    /\ u \in Keys(img_cache) => Get(img_cache', u) # Get(img_cache, u)

----------------------------------------------------------------------------
(* C1: in every state of a validation call the requests that hold a
   connection (probes on the wire, not yet answered, failed or timed out) are
   at most the connector's limit, however many rows are pending. *)
ConcurrencyBound == Cardinality(InUse) <= concurrency

(* more rows than the limit, the limit reached, a further request waiting *)
WitnessConcurrencyBound ==
    /\ pc = "await"
    /\ total > concurrency
    /\ Cardinality(InUse) = concurrency
    /\ \E i \in DOMAIN tasks : tasks[i].st = "queued"

(* C2: the second of two calls on the same rows, run with the cache the first
   call left, issues no request and returns the same set of rows. *)
TwiceSameResult ==
    (pc = "normalize" /\ round = 2) => (issued = 0 /\ ValidSet = first.valid)

(* C3: within a run no step changes or removes a verdict the cache holds. *)
CacheAppendOnly ==
    [][pc \notin {"done", "error"} =>
         \A u \in Keys(img_cache) :
            u \in Keys(img_cache') /\ Get(img_cache', u) = Get(img_cache, u)]_vars

(* C4: session.head is never called for a URL the cache holds a verdict for;
   a row with such a URL is decided by that verdict; within a run the cache
   never loses a key (so a verdict recorded in the sets call is there in the
   minifigs call); and a run that loads the cache file holds every verdict
   the file holds. *)
ReuseRecordedVerdict ==
    [][/\ \A i \in DOMAIN tasks :
            HeadIssuedIn(i) => data[i] \notin Keys(img_cache)
       /\ \A i \in DOMAIN tasks :
            (StartedIn(i) /\ data[i] \in Keys(img_cache)) =>
                /\ tasks'[i].st = "done"
                /\ tasks'[i].ret = Get(img_cache, data[i])
       /\ pc \notin {"done", "error"} => Keys(img_cache) \subseteq Keys(img_cache')
       /\ (pc = "load" /\ pc' # "load") =>
            \A j \in DOMAIN cacheFile.text :
               Len(cacheFile.text[j]) = 2 =>
                  /\ cacheFile.text[j][1] \in Keys(img_cache')
                  /\ Get(img_cache', cacheFile.text[j][1]) = Decode(cacheFile.text[j][2])
      ]_vars

(* first run (no cache file): a minifigs row is returned from a verdict a
   probe of the sets call recorded, with no request made for it *)
WitnessReuseRecordedVerdict ==
    /\ pc = "await"
    /\ ds = 3
    /\ ~cacheFile.exists
    /\ issued = 0
    /\ \E i \in DOMAIN tasks : tasks[i].out = "hit" /\ tasks[i].ret

(* C5: a step that writes a verdict for u into the cache is the completion of
   a request for u, and the verdict is true iff that request was answered
   200 (false for another status, an error or a timeout); outside the
   validation calls nothing writes a verdict. *)
VerdictsAreObserved ==
    [][/\ pc = "await" =>
            \A u \in Keys(img_cache') :
               Changed(u) =>
                  \E i \in DOMAIN tasks :
                     /\ FinishedIn(i)
                     /\ data[i] = u
                     /\ tasks'[i].out \in Failures \cup {"200"}
                     /\ Get(img_cache', u) = (tasks'[i].out = "200")
       /\ pc \notin {"await", "load", "done", "error"} => img_cache' = img_cache
      ]_vars

(* one URL answered 200 and recorded true, another timed out and recorded
   false *)
WitnessVerdictsAreObserved ==
    /\ pc = "await"
    /\ \E i, j \in DOMAIN tasks :
          /\ tasks[i].out = "200"
          /\ tasks[j].out = "timeout"
          /\ data[i] # data[j]
          /\ Get(img_cache, data[i])
          /\ ~Get(img_cache, data[j])

(* C6: a failing probe (other status, error, timeout) records false for its
   URL, returns no row, changes no other task and does not end the call; when
   the call returns every row has been counted, the failed rows are out and
   the rows answered 200 are in. *)
FailureIsIsolated ==
    /\ [][\A i \in DOMAIN tasks :
            (FinishedIn(i) /\ tasks'[i].out \in Failures) =>
                /\ data[i] \in Keys(img_cache')
                /\ Get(img_cache', data[i]) = FALSE
                /\ ~tasks'[i].ret
                /\ pc' = pc
                /\ err' = err
                /\ \A j \in DOMAIN tasks : j # i => tasks'[j] = tasks[j]
         ]_vars
    /\ [](pc = "normalize" =>
            /\ count = total
            /\ \A i \in DOMAIN tasks :
                  /\ tasks[i].st = "done"
                  /\ tasks[i].out \in Failures => i \notin ValidSet
                  /\ tasks[i].out = "200" => i \in ValidSet)

(* the call returned: one row failed and is out, another was answered 200
   and is in *)
WitnessFailureIsIsolated ==
    /\ pc = "normalize"
    /\ \E i, j \in DOMAIN tasks :
          /\ tasks[i].out \in Failures
          /\ i \notin ValidSet
          /\ tasks[j].out = "200"
          /\ j \in ValidSet

(* C7: the check of a row whose URL is a key of the cache calls no
   session.head and leaves the cache as it is, and the row is returned iff
   the verdict the cache held at that moment is true. *)
CacheHitSkipsProbe ==
    /\ [][\A i \in DOMAIN tasks :
            (StartedIn(i) /\ data[i] \in Keys(img_cache)) =>
                /\ img_cache' = img_cache
                /\ issued' = issued
                /\ tasks'[i] = [st |-> "done", out |-> "hit",
                                ret |-> Get(img_cache, data[i])]
         ]_vars
    /\ [](pc = "normalize" =>
            \A i \in DOMAIN tasks :
               tasks[i].out = "hit" => (i \in ValidSet <=> tasks[i].ret))

(* a row whose URL the loaded cache file holds as false is excluded, no
   request having been made in the call *)
WitnessCacheHitSkipsProbe ==
    /\ pc = "normalize"
    /\ cacheFile.exists
    /\ issued = 0
    /\ \E i \in DOMAIN tasks :
          /\ tasks[i].out = "hit"
          /\ ~Get(img_cache, data[i])
          /\ i \notin ValidSet

(* C8: the check of a row whose img_url is missing, None or empty calls no
   session.head, leaves the cache as it is, raises nothing and returns no
   row; the row is not in the result and the cache never gets such a key. *)
NoImageExcluded ==
    /\ [][\A i \in DOMAIN tasks :
            (StartedIn(i) /\ data[i] \in NoImage) =>
                /\ img_cache' = img_cache
                /\ issued' = issued
                /\ tasks'[i] = [st |-> "done", out |-> "nourl", ret |-> FALSE]
                /\ pc' = pc
                /\ err' = err
         ]_vars
    /\ [](pc = "normalize" =>
            \A i \in DOMAIN data : data[i] \in NoImage => i \notin ValidSet)
    /\ [](Keys(img_cache) \cap NoImage = {})

(* the call returned without the row whose img_url is None and with the row
   that was answered 200 *)
WitnessNoImageExcluded ==
    /\ pc = "normalize"
    /\ \E i, j \in DOMAIN tasks :
          /\ data[i] = Null
          /\ tasks[i].out = "nourl"
          /\ i \notin ValidSet
          /\ j \in ValidSet

(* C9: at every moment of a save the cache file holds either all of what it
   held before the save or all of the new mapping, and is never an empty or
   partial text. *)
SaveIsAtomic ==
    /\ cacheFile.exists => WellFormed(cacheFile.text)
    /\ pc = "save_write" => cacheFile \in {prevFile, File(Dump(img_cache))}

(* C10: when main ends because download_zip or extract_and_convert raised,
   the temporary zip file of that dataset does not exist. *)
CleanupOnFailure ==
    (pc = "error" /\ err \in {"download", "extract"}) =>
        ~tempzip[DatasetOrder[ds]]

(* C11: when main ends because download_zip or extract_and_convert raised,
   save_image_cache has not been called in the run and CACHE_FILE is what it
   was when the run started: absent, or a complete text that
   load_image_cache can read. *)
CacheFileSurvivesFailure ==
    (pc = "error" /\ err \in {"download", "extract"}) =>
        /\ log.writes = 0
        /\ cacheFile = log.atStart
        /\ cacheFile.exists => WellFormed(cacheFile.text)

(* a run fails on the minifigs after the validation of the sets recorded a
   verdict that the file left by an earlier run does not hold *)
WitnessCacheFileSurvivesFailure ==
    /\ pc = "error"
    /\ err \in {"download", "extract"}
    /\ cacheFile.exists
    /\ WellFormed(cacheFile.text)
    /\ Keys(Parse(cacheFile.text)) # {}
    /\ Keys(img_cache) # Keys(Parse(cacheFile.text))

(* C12: when a run has ended with the save of the cache, the mapping in
   CACHE_FILE holds every URL the run loaded at its start with the verdict it
   was loaded with, every URL the sets call or the minifigs call probed, and
   no other key. *)
SavedIsLoadedPlusProbed ==
    pc = "done" =>
        LET loaded == load_image_cache(log.atStart)
            saved == load_image_cache(cacheFile)
        IN /\ \A u \in Keys(loaded) :
                 /\ u \in Keys(saved)
                 /\ Get(saved, u) = Get(loaded, u)
           /\ log.probed \subseteq Keys(saved)
           /\ Keys(saved) \subseteq Keys(loaded) \cup log.probed

(* a run that loaded a verdict and probed another URL has saved the cache *)
WitnessSavedIsLoadedPlusProbed ==
    /\ pc = "done"
    /\ log.writes = 1
    /\ Keys(load_image_cache(log.atStart)) # {}
    /\ log.probed # {}
    /\ log.returns = 2

(* the tasks of the current call that have not finished *)
Unfinished == {i \in DOMAIN tasks : tasks[i].st # "done"}

(* C13: a run has read CACHE_FILE once as soon as it has left its first
   step, and opens it for writing at most once, after both validation calls
   have returned; the step that reads the file comes before any probe of the
   run, and no step that reads or changes the file is taken while a task of
   a validation call has not finished. *)
CacheFileReadOnceWrittenOnce ==
    /\ [](/\ pc # "load" => log.reads = 1
          /\ pc = "load" => log.reads = 0
          /\ log.writes <= 1
          /\ log.writes = 1 => log.returns = Len(DatasetOrder) - 1)
    /\ [][(pc = "load" /\ pc' # "load") =>
              /\ log.probed = {}
              /\ log.returns = 0
              /\ issued = 0
              /\ Unfinished = {}]_vars
    /\ [][cacheFile' # cacheFile =>
              /\ log'.writes = 1
              /\ log.returns = Len(DatasetOrder) - 1
              /\ Unfinished = {}
              /\ pc \in {"save_open", "save_write"}]_vars
    /\ [][Unfinished # {} =>
              /\ cacheFile' = cacheFile
              /\ log'.reads = log.reads
              /\ log'.writes = log.writes]_vars

(* a run that probed in both calls has read the file an earlier run left and
   has written its own *)
WitnessCacheFileReadOnceWrittenOnce ==
    /\ pc = "done"
    /\ log.atStart.exists
    /\ log.reads = 1
    /\ log.writes = 1
    /\ log.probed = Urls
    /\ cacheFile # log.atStart

(* two dicts that Python compares equal: the same keys with the same values *)
SameMapping(c, d) ==
    /\ Keys(c) = Keys(d)
    /\ \A u \in Keys(c) : u \in Keys(d) /\ Get(c, u) = Get(d, u)

(* C14: load_image_cache applied to the file that save_image_cache has
   written for a dict returns a dict equal to it, the empty dict included, and
   a run that finds no CACHE_FILE starts with the empty dict. *)
CacheRoundTrip ==
    /\ [](pc = "done" =>
            /\ cacheFile = File(Dump(img_cache))
            /\ SameMapping(load_image_cache(cacheFile), img_cache))
    /\ [][(pc = "load" /\ pc' = "download") =>
              /\ ~cacheFile.exists => img_cache' = <<>>
              /\ cacheFile.exists =>
                    cacheFile.text = Dump(img_cache')]_vars

(* a dict with a true and a false verdict has been saved *)
WitnessCacheRoundTrip ==
    /\ pc = "done"
    /\ \E u, w \in Keys(img_cache) : Get(img_cache, u) /\ ~Get(img_cache, w)

----------------------------------------------------------------------------
(* The theme records that register an id, those of them that name a parent,
   and the last index of a set of indices *)
Registered(id) == {j \in DOMAIN themes_data : themes_data[j].id = id}
WithParent(id) == {j \in Registered(id) : Truthy(themes_data[j].parent_id)}
LastOf(S) == CHOOSE j \in S : \A k \in S : k <= j
NoTheme == {"", Null}
Enriched == pc \in {"normalize_row", "normalized"}
HasThemeId == "theme_id" \in DOMAIN row /\ IsInt(row["theme_id"])
Reversed(q) == [j \in DOMAIN q |-> q[Len(q) + 1 - j]]
UniqueIds == \A j, k \in DOMAIN themes_data :
                 themes_data[j].id = themes_data[k].id => j = k

(* C15: after add_theme_names a row whose theme_id is an int t that a theme
   record registers with a parent_id P has as parent_theme the name
   registered for P, whatever the order of the theme records; a row whose
   theme has no parent_id, or a parent_id that no record registers, or whose
   theme_id is missing or not an int, has "" or None as parent_theme. *)
ParentThemeResolved ==
    Enriched =>
        /\ "parent_theme" \in DOMAIN row
        /\ IF HasThemeId /\ WithParent(row["theme_id"]) # {}
           THEN LET P == themes_data[LastOf(WithParent(row["theme_id"]))].parent_id
                IN IF Registered(P) # {}
                   THEN row["parent_theme"] = themes_data[LastOf(Registered(P))].name
                   ELSE row["parent_theme"] \in NoTheme
           ELSE row["parent_theme"] \in NoTheme
        /\ UniqueIds =>
             LET lookup == ThemesLookup(Reversed(themes_data))
                 parents == ParentLookup(Reversed(themes_data), lookup)
             IN add_theme_names(row, lookup, parents)["parent_theme"]
                    = row["parent_theme"]

(* the scenario: a set of theme 2, Technic Model, whose parent is Technic *)
WitnessParentThemeResolved ==
    /\ pc = "normalized"
    /\ themes_data = Scenario
    /\ row["theme_id"] = "2"
    /\ normalized_row["theme"] = "Technic Model"
    /\ normalized_row["parent_theme"] = "Technic"

(* C16: after add_theme_names a row whose theme_id is an int that a theme
   record registers has as theme the name of the last record that registers
   it; a row whose theme_id is missing, not an int or not registered has ""
   or None as theme. *)
ThemeResolved ==
    Enriched =>
        /\ "theme" \in DOMAIN row
        /\ IF HasThemeId /\ Registered(row["theme_id"]) # {}
           THEN row["theme"] = themes_data[LastOf(Registered(row["theme_id"]))].name
           ELSE row["theme"] \in NoTheme

(* two records register the id of the row under different names *)
WitnessThemeResolved ==
    /\ Enriched
    /\ HasThemeId
    /\ Cardinality(Registered(row["theme_id"])) = 2
    /\ themes_data[1].name # themes_data[2].name
    /\ row["theme"] = themes_data[2].name

(* C17: a normalized row has exactly the seven fields of FIELDS_ORDER; its
   set_num is the set_num of the row if the row has a non-empty one, else its
   fig_num if it has a non-empty one, else ""; each other field is "" when
   the row lacks its source field and the value of the source field, None
   included, when the row has it. *)
NormalizedShape ==
    pc = "normalized" =>
        /\ DOMAIN normalized_row = Fields
        /\ Cardinality(DOMAIN normalized_row) = 7
        /\ IF "set_num" \in DOMAIN row /\ row["set_num"] \notin NoTheme
           THEN normalized_row["set_num"] = row["set_num"]
           ELSE IF "fig_num" \in DOMAIN row /\ row["fig_num"] \notin NoTheme
           THEN normalized_row["set_num"] = row["fig_num"]
           ELSE normalized_row["set_num"] = ""
        /\ \A k \in Fields \ {"set_num"} :
             /\ k \in DOMAIN normalized_row
             /\ IF SourceOf[k] \in DOMAIN row
                THEN normalized_row[k] = row[SourceOf[k]]
                ELSE normalized_row[k] = ""

(* a row without set_num, name and img_url, with a fig_num *)
WitnessNormalizedShape ==
    /\ pc = "normalized"
    /\ {"set_num", "name", "img_url"} \cap DOMAIN row = {}
    /\ "fig_num" \in DOMAIN row
    /\ normalized_row["set_num"] = "fig-1"
    /\ normalized_row["name"] = ""

(* C18: under the scheduling of SpecFair every call of
   filter_valid_images_async ends: from some moment on it has returned, every
   task has finished and the loop has counted as many completions as there
   are rows. *)
FilterTerminates ==
    <>[](/\ pc = "normalize"
         /\ Unfinished = {}
         /\ doneq = <<>>
         /\ count = total)

(* a call has returned although a request was never answered and another had
   to wait for its connection *)
WitnessFilterTerminates ==
    /\ pc = "normalize"
    /\ total = MaxRows
    /\ count = total
    /\ \E i, j \in DOMAIN tasks :
          /\ i # j
          /\ tasks[i].out = "timeout"
          /\ tasks[j].out \in {"200", "non200"}

(* C19: when filter_valid_images_async returns, a row with a non-empty URL
   is among the rows returned exactly if the cache holds true for its URL. *)
ResultAgreesWithCache ==
    pc = "normalize" =>
        \A i \in DOMAIN data :
            UrlOf(data[i]) # "" =>
                /\ UrlOf(data[i]) \in Keys(img_cache)
                /\ i \in ValidSet <=> Get(img_cache, UrlOf(data[i]))

(* the rows whose check found a non-empty URL that was not a key of the cache *)
Missed ==
    {i \in DOMAIN tasks : tasks[i].st \in {"queued", "conn"} \/ tasks[i].out \in Probes}

(* C20: in one call no row is appended to valid_data twice and every entry
   of valid_data is a row of data; a task calls session.head only in its
   first step, exactly when its URL is non-empty and not a key of the cache
   at that step, and never starts again; so the number of calls of
   session.head is the number of such rows. *)
OneProbeOneAppend ==
    /\ [](pc \in {"await", "normalize"} =>
            /\ ValidSet \subseteq DOMAIN data
            /\ Cardinality(ValidSet) = Len(valid_data)
            /\ Len(valid_data) <= count
            /\ \A i \in ValidSet : tasks[i].st = "done" /\ tasks[i].ret
            /\ Started => issued = Cardinality(Missed))
    /\ [][pc = "await" /\ pc' = "await" =>
              /\ \A i \in DOMAIN tasks :
                    /\ tasks[i].st # "new" => tasks'[i] # NewTask
                    /\ StartedIn(i) =>
                          (issued' = issued + 1 <=>
                              /\ UrlOf(data[i]) # ""
                              /\ UrlOf(data[i]) \notin Keys(img_cache))
              /\ issued' # issued =>
                    /\ issued' = issued + 1
                    /\ \E i \in DOMAIN tasks : StartedIn(i)
              /\ Len(valid_data') <= Len(valid_data) + 1]_vars

(* a call has returned every row, all of one URL, after one probe for each *)
WitnessOneProbeOneAppend ==
    /\ pc = "normalize"
    /\ total = MaxRows
    /\ Cardinality(ValidSet) = MaxRows
    /\ issued = MaxRows
    /\ \A i \in DOMAIN data : data[i] = data[1]

====
